---- MODULE Spec2Model ----
(***************************************************************************)
(* Bounded blocking FIFO queue of src/src/lab.c: a circular buffer guarded *)
(* by one pthread mutex and two condition variables, with a shutdown flag. *)
(*                                                                         *)
(* Each thread has a program counter.  A thread enters an operation by     *)
(* taking the mutex (a thread that has called an operation but has not yet *)
(* got the mutex has touched nothing, and is modelled as not having called *)
(* yet); the critical section that follows is one step, ending with the    *)
(* unlock or with pthread_cond_wait releasing the mutex.  A thread leaving *)
(* a wait must take the mutex again, in a step of its own.                 *)
(***************************************************************************)
EXTENDS Integers, Sequences, FiniteSets

\* ---------------------------------------------------------------- bounds
NumThreads == 3
MaxItems == 3
MaxCap == 2

Threads == 1..NumThreads
Items == 1..MaxItems

\* ------------------------------------------------------------ C constants
\* NULL, the "no item" result of dequeue and the failed result of queue_init.
NULL == 0
\* q->rear as queue_init leaves it.
InitRear_AsFront == 0
InitRear == -1
\* The content of malloc'ed memory nothing has written yet.
Uninit == -7
\* C's true and false as returned by is_empty and is_shutdown.
CTrue == 1
CFalse == 0
\* No thread owns the mutex.
Unlocked == 0

\* Capacities queue_init is called with: invalid ones and 1..MaxCap.
BadCaps == {-5, -1, 0}
CapInputs == BadCaps \cup (1..MaxCap)

VARIABLES
  q,                 \* the handle queue_init returned: "unborn", "NULL", "queue"
  capacity, size, front, rear, buffer, is_shutdown_flag,   \* struct queue
  lock,              \* owner of q->lock, or Unlocked
  not_empty,         \* threads blocked in pthread_cond_wait(&q->not_empty)
  not_full,          \* threads blocked in pthread_cond_wait(&q->not_full)
  destroyed,         \* "no", "called" (queue_destroy entered), "freed"
  pc,                \* each thread's position
  arg,               \* each thread's data argument while it is inside enqueue
  ret,               \* the latest return: [op, val]
  \* history variables, written but never read by the operations
  initArg,           \* the capacity queue_init was called with
  mallocOK,          \* whether both allocations of queue_init succeeded
  nextTag,           \* the next fresh item
  inserted,          \* items stored by enqueue, in critical-section order
  returned,          \* items handed out by dequeue, in critical-section order
  dropped,           \* items whose enqueue returned without storing them
  droppedBlocked,    \* those of dropped whose enqueue had waited on not_full
  drainSeen,         \* a dequeue on the queue has returned NULL
  sdState,           \* "none", "entered", "done": the first shutdown
  sdQueue,           \* the queue's content when the flag was first set
  sdReturned,        \* Len(returned) when the flag was first set
  sdConsumers,       \* consumers that were blocked on an empty queue when
                     \* queue_shutdown ran and have not returned yet
  sdPending,         \* items of the producers that were blocked when
                     \* queue_shutdown ran and have not returned yet
  dBlocked           \* threads that were blocked in a wait when
                     \* queue_destroy broadcast and have not returned yet

qvars == <<q, capacity, size, front, rear, buffer, is_shutdown_flag>>
syncvars == <<lock, not_empty, not_full>>
histvars == <<initArg, mallocOK, nextTag, inserted, returned, dropped,
              droppedBlocked, drainSeen, sdState, sdQueue, sdReturned,
              sdConsumers, sdPending, dBlocked>>
vars == <<qvars, syncvars, destroyed, pc, arg, ret, histvars>>

\* ---------------------------------------------------------------- helpers
Range(s) == {s[i] : i \in 1..Len(s)}

IsPrefix(s, t) == Len(s) <= Len(t) /\ \A i \in 1..Len(s) : s[i] = t[i]

NoDup(s) == \A i, j \in 1..Len(s) : s[i] = s[j] => i = j

Ret(o, v) == [op |-> o, val |-> v]

\* (i + 1) % q->capacity, with C's remainder (i + 1 >= 0 here).
NextIndex_NoWrap(i) == i + 1
NextIndex(i) == (i + 1) % capacity

\* queue_init's test of its argument.
InvalidCapacity_Strict(c) == c < 0
InvalidCapacity(c) == c <= 0

\* The loop condition of enqueue: full and not shut down.
EnqMustWait_OffByOne == size > capacity /\ ~is_shutdown_flag
EnqMustWait_IfNotWhile ==
  /\ size = capacity /\ ~is_shutdown_flag
  /\ lock # Unlocked /\ pc[lock] = "enq_check"
EnqMustWait == size = capacity /\ ~is_shutdown_flag

\* enqueue's test after the loop: a shut-down queue takes no item.
EnqRejects_Never == FALSE
EnqRejects_OnlyIfFull == is_shutdown_flag /\ size = capacity
EnqRejects == is_shutdown_flag

\* The loop condition of dequeue: empty and not shut down.
DeqMustWait_Never == FALSE
DeqMustWait_IgnoreShutdown == size = 0
DeqMustWait == size = 0 /\ ~is_shutdown_flag

\* dequeue's test after the loop: nothing is left.
DeqFindsEmpty_OrShutdown == size = 0 \/ is_shutdown_flag
DeqFindsEmpty == size = 0

\* The item dequeue reads.
DeqItem_Rear == buffer[rear]
DeqItem == buffer[front]

\* The values is_empty and is_shutdown read under the lock.
IsEmptyValue == IF size = 0 THEN CTrue ELSE CFalse
IsShutdownValue_CopyPaste == IF size = 0 THEN CTrue ELSE CFalse
IsShutdownValue == IF is_shutdown_flag THEN CTrue ELSE CFalse

\* The stored items from the oldest to the newest.
RECURSIVE ContentFrom(_, _)
ContentFrom(i, n) ==
  IF n = 0 THEN <<>> ELSE <<buffer[i]>> \o ContentFrom((i + 1) % capacity, n - 1)
Content == IF q = "queue" /\ size > 0 /\ size <= capacity
           THEN ContentFrom(front, size) ELSE <<>>

\* The position a thread leaves pthread_cond_wait through: it must take the
\* mutex again before the wait returns.
Relock(p) == IF p = "enq_wait" THEN "enq_relock"
             ELSE IF p = "deq_wait" THEN "deq_relock" ELSE p

\* pthread_cond_signal: one waiter of the condition, if there is any, leaves
\* its wait.  ws is the condition's wait set, w the waiter chosen.
SignalChoices_None(ws) == {NULL}
SignalChoices(ws) == IF ws = {} THEN {NULL} ELSE ws
Signalled_Broadcast(pcs, w) ==
  IF w = NULL THEN pcs
  ELSE [t \in Threads |-> IF pcs[t] = pcs[w] THEN Relock(pcs[t]) ELSE pcs[t]]
Signalled(pcs, w) == IF w = NULL THEN pcs ELSE [pcs EXCEPT ![w] = Relock(pcs[w])]

\* pthread_cond_broadcast: the waiters of wait set ws that leave their wait.
BroadcastWoken_One(ws) == IF ws = {} THEN {} ELSE {CHOOSE w \in ws : TRUE}
BroadcastWoken(ws) == ws

\* The positions after the two broadcasts of queue_shutdown and queue_destroy.
Broadcast(pcs) ==
  [t \in Threads |-> IF t \in BroadcastWoken(not_empty) \cup BroadcastWoken(not_full)
                     THEN Relock(pcs[t]) ELSE pcs[t]]

BlockedProducer(t) == pc[t] \in {"enq_wait", "enq_relock"}
BlockedConsumer(t) == pc[t] \in {"deq_wait", "deq_relock"}
Blocked(t) == BlockedProducer(t) \/ BlockedConsumer(t)

\* A call may start: the thread is between calls, queue_init has returned and
\* queue_destroy has not been entered.
MayCall(t) == pc[t] = "idle" /\ q # "unborn" /\ destroyed = "no"

\* Entering an operation on a queue: pthread_mutex_lock returns.
Enter_NoMutex(t, p) ==
  /\ MayCall(t)
  /\ q = "queue"
  /\ lock' = t
  /\ pc' = [pc EXCEPT ![t] = p]
Enter(t, p) ==
  /\ MayCall(t)
  /\ q = "queue"
  /\ lock = Unlocked
  /\ lock' = t
  /\ pc' = [pc EXCEPT ![t] = p]

\* An operation on the NULL handle returns v at once.
OnNull(t, o, v) ==
  /\ MayCall(t)
  /\ q = "NULL"
  /\ ret' = Ret(o, v)
  /\ UNCHANGED <<qvars, syncvars, destroyed, pc, arg, histvars>>

\* ------------------------------------------------------------------- Init
\* Before queue_init there is no queue: the fields hold whatever the memory
\* malloc will hand out holds (Uninit, and a flag that reads as true), so that
\* what queue_init does not write shows.
Init ==
  /\ q = "unborn"
  /\ capacity = Uninit /\ size = Uninit /\ front = Uninit /\ rear = Uninit
  /\ buffer = <<>>
  /\ is_shutdown_flag = TRUE
  /\ lock = Unlocked /\ not_empty = {} /\ not_full = {}
  /\ destroyed = "no"
  /\ pc = [t \in Threads |-> "idle"]
  /\ arg = [t \in Threads |-> NULL]
  /\ ret = Ret("none", NULL)
  /\ initArg = 0 /\ mallocOK = FALSE
  /\ nextTag = 1
  /\ inserted = <<>> /\ returned = <<>>
  /\ dropped = {} /\ droppedBlocked = {}
  /\ drainSeen = FALSE
  /\ sdState = "none" /\ sdQueue = <<>> /\ sdReturned = 0
  /\ sdConsumers = {} /\ sdPending = {}
  /\ dBlocked = {}

\* ------------------------------------------------------------- queue_init
\* c is the capacity argument, m1 and m2 whether the two malloc calls succeed.
queue_init(c, m1, m2) ==
  /\ q = "unborn"
  /\ initArg' = c
  /\ mallocOK' = (m1 /\ m2)
  /\ IF InvalidCapacity(c) \/ ~m1 \/ ~m2
     THEN /\ q' = "NULL"
          /\ UNCHANGED <<capacity, size, front, rear, buffer, is_shutdown_flag>>
     ELSE /\ q' = "queue"
          /\ capacity' = c
          /\ size' = 0
          /\ front' = 0
          /\ rear' = InitRear
          /\ is_shutdown_flag' = FALSE
          /\ buffer' = [i \in 0..(c - 1) |-> Uninit]
  /\ UNCHANGED <<syncvars, destroyed, pc, arg, ret, nextTag, inserted, returned,
                 dropped, droppedBlocked, drainSeen, sdState, sdQueue,
                 sdReturned, sdConsumers, sdPending, dBlocked>>

\* ---------------------------------------------------------------- enqueue
enqueue_null(t) ==
  /\ nextTag <= MaxItems
  /\ OnNull(t, "enqueue", NULL)

\* The call, with a fresh item as data, up to pthread_mutex_lock returning.
enqueue_enter(t) ==
  /\ nextTag <= MaxItems
  /\ Enter(t, "enq_check")
  /\ nextTag' = nextTag + 1
  /\ arg' = [arg EXCEPT ![t] = nextTag]
  /\ UNCHANGED <<qvars, not_empty, not_full, destroyed, ret, initArg, mallocOK,
                 inserted, returned, dropped, droppedBlocked, drainSeen,
                 sdState, sdQueue, sdReturned, sdConsumers, sdPending, dBlocked>>

\* pthread_cond_wait takes the mutex again before it returns.
enqueue_relock(t) ==
  /\ pc[t] = "enq_relock"
  /\ lock = Unlocked
  /\ lock' = t
  /\ pc' = [pc EXCEPT ![t] = "enq_recheck"]
  /\ UNCHANGED <<qvars, not_empty, not_full, destroyed, arg, ret, histvars>>

\* The critical section from the loop test to the wait or to the unlock.
enqueue_body(t) ==
  /\ pc[t] \in {"enq_check", "enq_recheck"}
  /\ lock = t
  /\ lock' = Unlocked
  /\ IF EnqMustWait
     THEN /\ not_full' = not_full \cup {t}
          /\ pc' = [pc EXCEPT ![t] = "enq_wait"]
          /\ UNCHANGED <<qvars, not_empty, arg, ret, inserted, dropped,
                         droppedBlocked, sdPending, dBlocked>>
     ELSE IF EnqRejects
     THEN /\ pc' = [pc EXCEPT ![t] = "idle"]
          /\ ret' = Ret("enqueue", NULL)
          /\ arg' = [arg EXCEPT ![t] = NULL]
          /\ dropped' = dropped \cup {arg[t]}
          /\ droppedBlocked' = IF pc[t] = "enq_recheck"
                               THEN droppedBlocked \cup {arg[t]} ELSE droppedBlocked
          /\ sdPending' = sdPending \ {arg[t]}
          /\ dBlocked' = dBlocked \ {t}
          /\ UNCHANGED <<qvars, not_empty, not_full, inserted>>
     ELSE /\ rear' = NextIndex(rear)
          /\ buffer' = [buffer EXCEPT ![rear'] = arg[t]]
          /\ size' = size + 1
          /\ inserted' = Append(inserted, arg[t])
          /\ ret' = Ret("enqueue", NULL)
          /\ arg' = [arg EXCEPT ![t] = NULL]
          /\ \E w \in SignalChoices(not_empty) :
               /\ not_empty' = not_empty \ {w}
               /\ pc' = [Signalled(pc, w) EXCEPT ![t] = "idle"]
          /\ sdPending' = sdPending \ {arg[t]}
          /\ dBlocked' = dBlocked \ {t}
          /\ UNCHANGED <<q, capacity, front, is_shutdown_flag, not_full,
                         dropped, droppedBlocked>>
  /\ UNCHANGED <<destroyed, initArg, mallocOK, nextTag, returned, drainSeen,
                 sdState, sdQueue, sdReturned, sdConsumers>>

\* ---------------------------------------------------------------- dequeue
dequeue_null(t) == OnNull(t, "dequeue", NULL)

dequeue_enter(t) ==
  /\ Enter(t, "deq_check")
  /\ UNCHANGED <<qvars, not_empty, not_full, destroyed, arg, ret, histvars>>

dequeue_relock(t) ==
  /\ pc[t] = "deq_relock"
  /\ lock = Unlocked
  /\ lock' = t
  /\ pc' = [pc EXCEPT ![t] = "deq_recheck"]
  /\ UNCHANGED <<qvars, not_empty, not_full, destroyed, arg, ret, histvars>>

\* The critical section from the loop test to the wait or to the unlock.
dequeue_body(t) ==
  /\ pc[t] \in {"deq_check", "deq_recheck"}
  /\ lock = t
  /\ lock' = Unlocked
  /\ IF DeqMustWait
     THEN /\ not_empty' = not_empty \cup {t}
          /\ pc' = [pc EXCEPT ![t] = "deq_wait"]
          /\ UNCHANGED <<qvars, not_full, ret, returned, drainSeen, sdConsumers,
                         dBlocked>>
     ELSE IF DeqFindsEmpty
     THEN /\ pc' = [pc EXCEPT ![t] = "idle"]
          /\ ret' = Ret("dequeue", NULL)
          /\ drainSeen' = TRUE
          /\ sdConsumers' = sdConsumers \ {t}
          /\ dBlocked' = dBlocked \ {t}
          /\ UNCHANGED <<qvars, not_empty, not_full, returned>>
     ELSE /\ ret' = Ret("dequeue", DeqItem)
          /\ returned' = Append(returned, DeqItem)
          /\ front' = NextIndex(front)
          /\ size' = size - 1
          /\ \E w \in SignalChoices(not_full) :
               /\ not_full' = not_full \ {w}
               /\ pc' = [Signalled(pc, w) EXCEPT ![t] = "idle"]
          /\ sdConsumers' = sdConsumers \ {t}
          /\ dBlocked' = dBlocked \ {t}
          /\ UNCHANGED <<q, capacity, rear, buffer, is_shutdown_flag, not_empty,
                         drainSeen>>
  /\ UNCHANGED <<destroyed, arg, initArg, mallocOK, nextTag, inserted, dropped,
                 droppedBlocked, sdState, sdQueue, sdReturned, sdPending>>

\* --------------------------------------------------------- queue_shutdown
queue_shutdown_null(t) == OnNull(t, "queue_shutdown", NULL)

queue_shutdown_enter(t) ==
  /\ Enter(t, "sd_body")
  /\ sdState' = IF sdState = "none" THEN "entered" ELSE sdState
  /\ UNCHANGED <<qvars, not_empty, not_full, destroyed, arg, ret, initArg,
                 mallocOK, nextTag, inserted, returned, dropped, droppedBlocked,
                 drainSeen, sdQueue, sdReturned, sdConsumers, sdPending,
                 dBlocked>>

\* Set the flag, broadcast both conditions, unlock.
queue_shutdown_body(t) ==
  /\ pc[t] = "sd_body"
  /\ lock = t
  /\ is_shutdown_flag' = TRUE
  /\ not_empty' = not_empty \ BroadcastWoken(not_empty)
  /\ not_full' = not_full \ BroadcastWoken(not_full)
  /\ lock' = Unlocked
  /\ pc' = [Broadcast(pc) EXCEPT ![t] = "idle"]
  /\ ret' = Ret("queue_shutdown", NULL)
  /\ sdState' = "done"
  /\ IF sdState = "done"
     THEN UNCHANGED <<sdQueue, sdReturned>>
     ELSE sdQueue' = Content /\ sdReturned' = Len(returned)
  /\ sdConsumers' = sdConsumers \cup
                      (IF size = 0 THEN {u \in Threads : BlockedConsumer(u)} ELSE {})
  /\ sdPending' = sdPending \cup {arg[u] : u \in {v \in Threads : BlockedProducer(v)}}
  /\ UNCHANGED <<q, capacity, size, front, rear, buffer, destroyed, arg, initArg,
                 mallocOK, nextTag, inserted, returned, dropped, droppedBlocked,
                 drainSeen, dBlocked>>

\* --------------------------------------------------------------- is_empty
is_empty_null(t) == OnNull(t, "is_empty", CTrue)

is_empty_enter(t) ==
  /\ Enter(t, "ie_body")
  /\ UNCHANGED <<qvars, not_empty, not_full, destroyed, arg, ret, histvars>>

is_empty_body(t) ==
  /\ pc[t] = "ie_body"
  /\ lock = t
  /\ lock' = Unlocked
  /\ pc' = [pc EXCEPT ![t] = "idle"]
  /\ ret' = Ret("is_empty", IsEmptyValue)
  /\ UNCHANGED <<qvars, not_empty, not_full, destroyed, arg, histvars>>

\* ------------------------------------------------------------ is_shutdown
is_shutdown_null(t) == OnNull(t, "is_shutdown", CTrue)

is_shutdown_enter(t) ==
  /\ Enter(t, "is_body")
  /\ UNCHANGED <<qvars, not_empty, not_full, destroyed, arg, ret, histvars>>

is_shutdown_body(t) ==
  /\ pc[t] = "is_body"
  /\ lock = t
  /\ lock' = Unlocked
  /\ pc' = [pc EXCEPT ![t] = "idle"]
  /\ ret' = Ret("is_shutdown", IsShutdownValue)
  /\ UNCHANGED <<qvars, not_empty, not_full, destroyed, arg, histvars>>

\* ---------------------------------------------------------- queue_destroy
queue_destroy_null(t) == OnNull(t, "queue_destroy", NULL)

\* Entering queue_destroy, up to pthread_mutex_lock returning.
DestroyEnter(t) ==
  /\ Enter(t, "d_body")
  /\ destroyed' = "called"
  /\ sdState' = IF sdState = "none" THEN "entered" ELSE sdState
  /\ UNCHANGED <<qvars, not_empty, not_full, arg, ret, initArg, mallocOK,
                 nextTag, inserted, returned, dropped, droppedBlocked, drainSeen,
                 sdQueue, sdReturned, sdConsumers, sdPending, dBlocked>>

\* queue_destroy called when no other thread is inside a queue operation.
queue_destroy_enter(t) ==
  /\ \A u \in Threads \ {t} : pc[u] = "idle"
  /\ DestroyEnter(t)

\* queue_destroy called while another thread is inside a queue operation.
queue_destroy_enter_busy(t) ==
  /\ \E u \in Threads \ {t} : pc[u] # "idle"
  /\ DestroyEnter(t)

\* Set the flag, broadcast both conditions, unlock.
queue_destroy_body(t) ==
  /\ pc[t] = "d_body"
  /\ lock = t
  /\ is_shutdown_flag' = TRUE
  /\ not_empty' = not_empty \ BroadcastWoken(not_empty)
  /\ not_full' = not_full \ BroadcastWoken(not_full)
  /\ lock' = Unlocked
  /\ pc' = [Broadcast(pc) EXCEPT ![t] = "d_free"]
  /\ sdState' = "done"
  /\ IF sdState = "done"
     THEN UNCHANGED <<sdQueue, sdReturned>>
     ELSE sdQueue' = Content /\ sdReturned' = Len(returned)
  /\ dBlocked' = {u \in Threads : Blocked(u)}
  /\ UNCHANGED <<q, capacity, size, front, rear, buffer, destroyed, arg, ret,
                 initArg, mallocOK, nextTag, inserted, returned, dropped,
                 droppedBlocked, drainSeen, sdConsumers, sdPending>>

\* Destroy the mutex and the conditions, free the buffer and the struct.
queue_destroy_free(t) ==
  /\ pc[t] = "d_free"
  /\ destroyed' = "freed"
  /\ pc' = [pc EXCEPT ![t] = "idle"]
  /\ ret' = Ret("queue_destroy", NULL)
  /\ UNCHANGED <<qvars, syncvars, arg, histvars>>

\* A thread still inside an operation touches the destroyed mutex or the freed
\* struct: undefined behaviour.  Besides carrying on over the stale memory (the
\* operation's own step), it may fault or block for ever.
use_after_free(t) ==
  /\ destroyed = "freed"
  /\ pc[t] \notin {"idle", "crashed", "hung"}
  /\ \E outcome \in {"crashed", "hung"} : pc' = [pc EXCEPT ![t] = outcome]
  /\ UNCHANGED <<qvars, syncvars, destroyed, arg, ret, histvars>>

\* ------------------------------------------------------- pthread_cond_wait
\* A spurious wakeup: the wait ends though nothing signalled the condition.
spurious_wakeup(t) ==
  /\ pc[t] \in {"enq_wait", "deq_wait"}
  /\ not_empty' = not_empty \ {t}
  /\ not_full' = not_full \ {t}
  /\ pc' = [pc EXCEPT ![t] = Relock(pc[t])]
  /\ UNCHANGED <<qvars, lock, destroyed, arg, ret, histvars>>

\* ------------------------------------------------------------ the program
\* The steps a thread takes inside an operation once it has entered it.
Step(t) ==
  \/ enqueue_relock(t) \/ enqueue_body(t)
  \/ dequeue_relock(t) \/ dequeue_body(t)
  \/ queue_shutdown_body(t)
  \/ is_empty_body(t)
  \/ is_shutdown_body(t)
  \/ queue_destroy_body(t) \/ queue_destroy_free(t)

\* The calls a thread may make.
Call(t) ==
  \/ enqueue_enter(t) \/ dequeue_enter(t) \/ queue_shutdown_enter(t)
  \/ is_empty_enter(t) \/ is_shutdown_enter(t) \/ queue_destroy_enter(t)
  \/ enqueue_null(t) \/ dequeue_null(t) \/ queue_shutdown_null(t)
  \/ is_empty_null(t) \/ is_shutdown_null(t) \/ queue_destroy_null(t)

Next ==
  \/ \E c \in CapInputs, m1, m2 \in BOOLEAN : queue_init(c, m1, m2)
  \/ \E t \in Threads : Call(t)
  \/ \E t \in Threads : Step(t)
  \/ \E t \in Threads : spurious_wakeup(t)

\* The queue during its lifetime: queue_destroy is called when no other thread
\* is inside an operation, and no operation is called after it.
Spec == Init /\ [][Next]_vars

\* Fair scheduling: every thread inside an operation keeps being scheduled, and
\* a thread that wants the mutex gets it if the mutex is free again and again.
\* Calls and spurious wakeups are under no obligation to happen.
Fairness == \A t \in Threads : SF_vars(Step(t))

FairSpec == Spec /\ Fairness

\* queue_destroy may also run while other threads are inside operations.
NextD ==
  \/ Next
  \/ \E t \in Threads : queue_destroy_enter_busy(t)
  \/ \E t \in Threads : use_after_free(t)

SpecD == Init /\ [][NextD]_vars

FairSpecD == SpecD /\ Fairness

\* ================================================================ claims
Live == q = "queue"
AllIdle == \A t \in Threads : pc[t] = "idle"
InEnqueueBody(t) == pc[t] \in {"enq_check", "enq_recheck"} /\ lock = t
InDequeueBody(t) == pc[t] \in {"deq_check", "deq_recheck"} /\ lock = t
\* The items enqueue has been called with.
Sent == 1..(nextTag - 1)

\* C1: FIFO.  The items dequeue has returned, in the order of the dequeues'
\* critical sections, are always a prefix of the items enqueue has stored, in
\* the order of the enqueues' critical sections; so n dequeues after n
\* enqueues return exactly what was stored, in that order, wrapped or not.
C1_Fifo == Live => IsPrefix(returned, inserted)

\* Three items went through a queue of capacity 2, so that rear and front
\* wrapped around, and came out as stored.
C1_Witness ==
  /\ Live /\ capacity = 2
  /\ Len(inserted) = 3 /\ returned = inserted
  /\ rear = 0 /\ front = 1

\* C2: capacity bound.  0 <= size <= capacity always; an enqueue that finds
\* the queue full and not shut down stores nothing and waits on not_full; and
\* an enqueue stores its item or returns only from a state where the queue is
\* not full or is shut down.
C2_CapacityBound ==
  /\ [](Live => 0 <= size /\ size <= capacity)
  /\ [][\A t \in Threads :
          (InEnqueueBody(t) /\ pc'[t] # pc[t]) =>
             IF size = capacity /\ ~is_shutdown_flag
             THEN /\ pc'[t] = "enq_wait" /\ t \in not_full'
                  /\ inserted' = inserted /\ size' = size /\ buffer' = buffer
             ELSE pc'[t] = "idle"]_vars
  /\ [][inserted' # inserted => size < capacity /\ ~is_shutdown_flag]_vars

\* A producer waits on not_full with the queue full and not shut down.
C2_Witness ==
  \E t \in Threads : /\ pc[t] = "enq_wait" /\ t \in not_full
                     /\ size = capacity /\ ~is_shutdown_flag

\* C3: empty bound.  size >= 0 always; a dequeue that finds the queue empty
\* and not shut down returns nothing and waits on not_empty; a dequeue returns
\* only from a state where the queue holds an item or is shut down.
C3_EmptyBound ==
  /\ [](Live => size >= 0)
  /\ [][\A t \in Threads :
          (InDequeueBody(t) /\ pc'[t] # pc[t]) =>
             IF size = 0 /\ ~is_shutdown_flag
             THEN /\ pc'[t] = "deq_wait" /\ t \in not_empty'
                  /\ ret' = ret /\ returned' = returned /\ size' = size
             ELSE pc'[t] = "idle" /\ ret'.op = "dequeue"]_vars

\* A consumer waits on not_empty with the queue empty and not shut down.
C3_Witness ==
  \E t \in Threads : /\ pc[t] = "deq_wait" /\ t \in not_empty
                     /\ size = 0 /\ ~is_shutdown_flag

\* C4: shutdown drains, then signals completion.  queue_shutdown leaves size,
\* front, rear and the buffer as they are; once the flag is set no dequeue
\* waits, the dequeues return the items the queue held when the flag was set,
\* oldest first, and every dequeue after those returns NULL.
C4_ShutdownDrains ==
  /\ [][\A t \in Threads :
          (pc[t] = "sd_body" /\ pc'[t] # pc[t]) =>
             /\ size' = size /\ front' = front /\ rear' = rear
             /\ buffer' = buffer]_vars
  /\ [][\A t \in Threads :
          (is_shutdown_flag /\ InDequeueBody(t) /\ pc'[t] # pc[t]) =>
             LET j == Len(returned) - sdReturned + 1 IN
               /\ pc'[t] = "idle"
               /\ ret' = Ret("dequeue",
                             IF j <= Len(sdQueue) THEN sdQueue[j] ELSE NULL)]_vars

\* The queue held two items at the shutdown; both have been dequeued since and
\* the latest dequeue returned NULL.
C4_Witness ==
  /\ Live /\ is_shutdown_flag /\ sdState = "done"
  /\ Len(sdQueue) = 2 /\ Len(returned) = sdReturned + 2
  /\ ret = Ret("dequeue", NULL)

\* C5: shutdown wakes blocked consumers.  Under fair scheduling every consumer
\* that was blocked in dequeue on an empty queue when queue_shutdown ran leaves
\* its wait and returns, and what its dequeue returns is NULL.
C5_ShutdownWakesConsumers ==
  /\ \A t \in Threads : (t \in sdConsumers) ~> (t \notin sdConsumers)
  /\ [][\A t \in Threads :
          (t \in sdConsumers /\ t \notin sdConsumers') =>
             pc'[t] = "idle" /\ ret' = Ret("dequeue", NULL)]_vars
  /\ [](\A t \in sdConsumers : pc[t] \in {"deq_relock", "deq_recheck"})

\* Two consumers were blocked on the empty queue when queue_shutdown ran; one
\* of them has the mutex again and is about to return.
C5_Witness ==
  /\ Cardinality(sdConsumers) = 2
  /\ \E t \in sdConsumers : pc[t] = "deq_recheck"

\* C6: shutdown drops pending producers.  Under fair scheduling every producer
\* that was blocked in enqueue when queue_shutdown ran returns, and its item is
\* never stored and never returned by a dequeue, also when a consumer has
\* freed a slot before the producer has the mutex again.
C6_ShutdownDropsProducers ==
  /\ \A x \in Items : (x \in sdPending) ~> (x \in droppedBlocked)
  /\ [][\A x \in Items :
          (x \in sdPending /\ x \notin sdPending') =>
             x \in droppedBlocked' /\ inserted' = inserted]_vars
  /\ [](\A x \in sdPending \cup droppedBlocked :
          x \notin Range(inserted) /\ x \notin Range(returned))

\* A producer was blocked when queue_shutdown ran, has not got the mutex back
\* yet, and a consumer has freed a slot in the meantime.
C6_Witness ==
  /\ Live /\ is_shutdown_flag /\ size < capacity
  /\ \E t \in Threads : pc[t] = "enq_relock" /\ arg[t] \in sdPending

\* C7: monotonic shutdown.  The flag is false from construction until the
\* first queue_shutdown or queue_destroy is entered, true once the first has
\* completed, set by each of them, and never set back to false; is_shutdown
\* returns false before any of them is entered and true once one has completed.
C7_MonotonicShutdown ==
  /\ [](Live /\ sdState = "none" => ~is_shutdown_flag)
  /\ [](Live /\ sdState = "done" => is_shutdown_flag)
  /\ [][Live /\ is_shutdown_flag => is_shutdown_flag']_vars
  /\ [][\A t \in Threads :
          (pc[t] \in {"sd_body", "d_body"} /\ pc'[t] # pc[t]) =>
             is_shutdown_flag' /\ sdState' = "done"]_vars
  /\ [][\A t \in Threads :
          (pc[t] = "is_body" /\ pc'[t] # pc[t]) =>
             /\ sdState = "none" => ret' = Ret("is_shutdown", CFalse)
             /\ sdState = "done" => ret' = Ret("is_shutdown", CTrue)]_vars

\* is_shutdown has returned true after a shutdown, on a queue that still holds
\* an item.
C7_Witness ==
  /\ Live /\ sdState = "done" /\ size > 0
  /\ ret = Ret("is_shutdown", CTrue)

\* C8 as stated: once every thread has returned and a dequeue has seen NULL,
\* the items received are the items sent less those whose enqueue was blocked
\* when the shutdown dropped it, each received once.
C8_Original ==
  (Live /\ AllIdle /\ drainSeen) =>
     /\ Range(returned) = Sent \ droppedBlocked
     /\ NoDup(returned)

\* C8, amended: once every thread has returned and a dequeue has seen NULL, the
\* items received are the items sent less those an enqueue dropped because of
\* the shutdown, whether that enqueue was blocked or found the queue shut down
\* on entry; each is received once.
C8_NoLossNoDup ==
  (Live /\ AllIdle /\ drainSeen) =>
     /\ Range(returned) = Sent \ dropped
     /\ NoDup(returned)

\* Every thread has returned after the drain; an item was received, one was
\* dropped from a blocked enqueue and one from an enqueue after the shutdown.
C8_Witness ==
  /\ Live /\ AllIdle /\ drainSeen
  /\ returned # <<>>
  /\ droppedBlocked # {}
  /\ dropped # droppedBlocked

\* C9 as stated: queue_init returns no queue for a capacity <= 0 and a queue
\* for every capacity >= 1.
C9_Original ==
  q # "unborn" => /\ initArg <= 0 => q = "NULL"
                  /\ initArg >= 1 => q = "queue"

\* C9, amended: queue_init returns no queue for a capacity <= 0; for a capacity
\* >= 1 it returns a queue with size 0 and the flag false, unless one of its two
\* allocations fails, and then it returns no queue.  A queue of capacity 1
\* that is not shut down stores the item of an enqueue that finds it empty
\* and makes an enqueue that finds it holding one item wait.
C9_ConstructionValidation ==
  /\ [](q # "unborn" /\ initArg <= 0 => q = "NULL")
  /\ [](q # "unborn" /\ initArg >= 1 /\ ~mallocOK => q = "NULL")
  /\ [][(q = "unborn" /\ q' # "unborn" /\ initArg' >= 1 /\ mallocOK') =>
          /\ q' = "queue" /\ capacity' = initArg'
          /\ size' = 0 /\ ~is_shutdown_flag']_vars
  /\ [][\A t \in Threads :
          (capacity = 1 /\ ~is_shutdown_flag /\ InEnqueueBody(t) /\ pc'[t] # pc[t]) =>
             /\ size = 0 => pc'[t] = "idle" /\ size' = 1 /\ inserted' # inserted
             /\ size = 1 => pc'[t] = "enq_wait" /\ size' = 1
                            /\ inserted' = inserted]_vars

\* A queue of capacity 1 holds its one item and a second enqueue waits.
C9_Witness ==
  /\ Live /\ initArg = 1 /\ capacity = 1 /\ size = 1
  /\ \E t \in Threads : pc[t] = "enq_wait"

\* C10: queue_destroy leaves no thread blocked.  Under fair scheduling every
\* thread that was blocked in enqueue or dequeue when queue_destroy broadcast
\* returns from its call.
C10_DestroyWakes ==
  \A t \in Threads : (t \in dBlocked) ~> (t \notin dBlocked)

\* C11 as stated: whenever the mutex is free and the queue holds an item, rear
\* equals (front + size) mod capacity.
C11_Original ==
  (Live /\ lock = Unlocked /\ size > 0) => rear = (front + size) % capacity

\* C11, amended: rear is the index of the newest item, not of the next free
\* slot.  Always (rear + 1) mod capacity = (front + size) mod capacity, and
\* whenever the mutex is free and the queue holds an item, rear equals
\* (front + size - 1) mod capacity and the newest stored item is at rear.
C11_IndexRelation ==
  /\ Live => (rear + 1) % capacity = (front + size) % capacity
  /\ (Live /\ lock = Unlocked /\ size > 0) =>
        /\ rear = (front + size - 1) % capacity
        /\ buffer[rear] = inserted[Len(inserted)]

\* A queue of capacity 2 holds one item at slot 1 after front and rear moved.
C11_Witness ==
  /\ Live /\ lock = Unlocked /\ capacity = 2
  /\ size = 1 /\ front = 1 /\ rear = 1 /\ Len(returned) = 1

\* C12 as stated: from construction onwards front and rear are both in
\* [0, capacity).
C12_Original ==
  Live => front \in 0..(capacity - 1) /\ rear \in 0..(capacity - 1)

\* C12, amended: front is in [0, capacity) from construction onwards; rear is
\* -1 from construction until the first enqueue stores an item and in
\* [0, capacity) from then on, whatever enqueues and dequeues follow.
C12_IndexRange ==
  Live => /\ front \in 0..(capacity - 1)
          /\ inserted = <<>> => rear = InitRear
          /\ inserted # <<>> => rear \in 0..(capacity - 1)

\* Both indices have wrapped around to slot 0 in a queue of capacity 2.
C12_Witness ==
  /\ Live /\ capacity = 2 /\ Len(inserted) = 3 /\ Len(returned) = 2
  /\ front = 0 /\ rear = 0

\* C13: enqueue on a shut-down queue is a no-op.  An enqueue that holds the
\* mutex while the flag is set, on entry or after a wait, returns without
\* waiting and leaves size, front, rear and the stored items as they were,
\* free slots or not; so size never grows once the flag is set.
C13_EnqueueShutdownNoOp ==
  /\ [][\A t \in Threads :
          (InEnqueueBody(t) /\ is_shutdown_flag /\ pc'[t] # pc[t]) =>
             /\ pc'[t] = "idle" /\ t \notin not_full'
             /\ ret' = Ret("enqueue", NULL)
             /\ size' = size /\ front' = front /\ rear' = rear
             /\ buffer' = buffer /\ inserted' = inserted]_vars
  /\ [][(Live /\ is_shutdown_flag) => size' <= size]_vars

\* After the shutdown one enqueue that had waited and one that was called on
\* the shut-down queue have both returned, the last with a free slot at hand.
C13_Witness ==
  /\ Live /\ is_shutdown_flag /\ size < capacity
  /\ ret = Ret("enqueue", NULL)
  /\ droppedBlocked # {} /\ dropped \ droppedBlocked # {}
  /\ \A t \in Threads : pc[t] = "idle"

\* C14: dequeue returns "no item" only at drain completion.  A dequeue that
\* returns NULL held the mutex with the flag set and size 0; a dequeue that
\* holds the mutex with size > 0 removes the item at front and returns it,
\* flag set or not.
C14_NullOnlyWhenDrained ==
  [][\A t \in Threads :
       (InDequeueBody(t) /\ pc'[t] # pc[t]) =>
          /\ (pc'[t] = "idle" /\ ret' = Ret("dequeue", NULL)) =>
                (is_shutdown_flag /\ size = 0)
          /\ size > 0 =>
                /\ pc'[t] = "idle"
                /\ ret' = Ret("dequeue", buffer[front]) /\ ret'.val # NULL
                /\ returned' = Append(returned, buffer[front])
                /\ size' = size - 1
                /\ front' = (front + 1) % capacity]_vars

\* On a shut-down queue a dequeue has returned an item that was stored when
\* the flag was set, and the latest dequeue has found nothing left.
C14_Witness ==
  /\ Live /\ is_shutdown_flag /\ size = 0
  /\ Len(returned) > sdReturned /\ sdQueue # <<>>
  /\ ret = Ret("dequeue", NULL)

\* The threads that leave the wait at position w in the step.
LeftWait(w) == {u \in Threads : pc[u] = w /\ pc'[u] # w}

\* C15: targeted wake.  An enqueue that stores its item raises size by exactly
\* 1, ends the wait of exactly one consumer waiting on not_empty if there is
\* one and of none otherwise, and of no producer waiting on not_full; a
\* dequeue that takes an item lowers size by exactly 1, ends the wait of
\* exactly one producer waiting on not_full if there is one and of none
\* otherwise, and of no consumer waiting on not_empty.
C15_TargetedWake ==
  [][\A t \in Threads :
       /\ (InEnqueueBody(t) /\ inserted' # inserted) =>
             /\ size' = size + 1
             /\ Cardinality(LeftWait("deq_wait")) = (IF not_empty = {} THEN 0 ELSE 1)
             /\ LeftWait("deq_wait") \subseteq not_empty
             /\ not_empty' = not_empty \ LeftWait("deq_wait")
             /\ \A u \in LeftWait("deq_wait") : pc'[u] = "deq_relock"
             /\ LeftWait("enq_wait") = {} /\ not_full' = not_full
       /\ (InDequeueBody(t) /\ returned' # returned) =>
             /\ size' = size - 1
             /\ Cardinality(LeftWait("enq_wait")) = (IF not_full = {} THEN 0 ELSE 1)
             /\ LeftWait("enq_wait") \subseteq not_full
             /\ not_full' = not_full \ LeftWait("enq_wait")
             /\ \A u \in LeftWait("enq_wait") : pc'[u] = "enq_relock"
             /\ LeftWait("deq_wait") = {} /\ not_empty' = not_empty]_vars

\* Two consumers waited on the empty queue; an enqueue stored one item and
\* woke one of them, and the other one is still waiting on not_empty.
C15_Witness ==
  /\ Live /\ ~is_shutdown_flag /\ size = 1 /\ lock = Unlocked
  /\ ret = Ret("enqueue", NULL)
  /\ \E u, v \in Threads :
       /\ pc[u] = "deq_relock" /\ pc[v] = "deq_wait"
       /\ not_empty = {v}

\* C16: shutdown broadcast.  queue_shutdown ends the wait of every thread
\* waiting on not_full and of every thread waiting on not_empty: when it has
\* released the mutex both wait sets are empty, and from then on they stay
\* empty, no thread waits on either condition again.
C16_ShutdownBroadcast ==
  /\ [][\A t \in Threads :
          (pc[t] = "sd_body" /\ pc'[t] # pc[t]) =>
             /\ lock' = Unlocked /\ is_shutdown_flag'
             /\ not_empty' = {} /\ not_full' = {}
             /\ \A u \in Threads :
                  /\ pc[u] = "enq_wait" => pc'[u] = "enq_relock"
                  /\ pc[u] = "deq_wait" => pc'[u] = "deq_relock"]_vars
  /\ []((Live /\ sdState = "done") =>
          /\ not_empty = {} /\ not_full = {}
          /\ \A u \in Threads : pc[u] \notin {"enq_wait", "deq_wait"})
  /\ [][(Live /\ is_shutdown_flag) =>
          \A u \in Threads : pc'[u] \notin {"enq_wait", "deq_wait"}]_vars

\* Two producers waited on a full queue; queue_shutdown has just returned and
\* both have left their wait and want the mutex.
C16_Witness ==
  /\ Live /\ size = capacity /\ lock = Unlocked
  /\ ret = Ret("queue_shutdown", NULL)
  /\ Cardinality(sdPending) = 2
  /\ Cardinality({u \in Threads : pc[u] = "enq_relock"}) = 2
  /\ not_full = {}

\* The thread is between pthread_mutex_lock and the pthread_mutex_unlock or
\* pthread_cond_wait that follows it.
InCriticalSection(t) ==
  pc[t] \in {"enq_check", "enq_recheck", "deq_check", "deq_recheck",
             "sd_body", "ie_body", "is_body", "d_body"}

\* C17: single-lock discipline.  At most one thread is inside a critical
\* section, and that thread holds the mutex; a step taken while no thread
\* holds the mutex changes none of size, front, rear, the slots and the flag
\* and returns no value read from them, and a step that changes one of them is
\* a step of the thread that holds the mutex.
C17_SingleLock ==
  /\ [](\A t, u \in Threads :
          (InCriticalSection(t) /\ InCriticalSection(u)) => t = u)
  /\ [](\A t \in Threads : InCriticalSection(t) <=> lock = t)
  /\ [][(Live /\ lock = Unlocked) =>
          /\ UNCHANGED <<size, front, rear, buffer, is_shutdown_flag>>
          /\ ret' # ret => ret'.op = "queue_destroy"]_vars
  /\ [][(Live /\ <<size, front, rear, buffer, is_shutdown_flag>>'
                   # <<size, front, rear, buffer, is_shutdown_flag>>) =>
          /\ lock \in Threads /\ InCriticalSection(lock)
          /\ pc'[lock] # pc[lock]]_vars

\* One thread is inside its critical section on a queue that holds an item
\* while two other threads, woken from their waits, want the mutex.
C17_Witness ==
  /\ Live /\ size > 0
  /\ \E t \in Threads :
       /\ InCriticalSection(t) /\ lock = t
       /\ \A u \in Threads \ {t} : pc[u] \in {"enq_relock", "deq_relock"}

\* C18: wait with re-check.  A thread starts to wait on not_full only from its
\* critical section with size = capacity and the flag clear, and on not_empty
\* only from its critical section with size = 0 and the flag clear; a thread
\* whose wait ends, signalled or not, takes the mutex and tests the loop
\* condition again before it does anything else, waiting again if it still
\* holds; so enqueue never stores into a full queue and dequeue never takes
\* from an empty one.
C18_WaitWithRecheck ==
  /\ [][\A t \in Threads :
          /\ (t \notin not_full /\ t \in not_full') =>
                /\ InEnqueueBody(t) /\ size = capacity /\ ~is_shutdown_flag
                /\ pc'[t] = "enq_wait" /\ lock' = Unlocked
          /\ (t \notin not_empty /\ t \in not_empty') =>
                /\ InDequeueBody(t) /\ size = 0 /\ ~is_shutdown_flag
                /\ pc'[t] = "deq_wait" /\ lock' = Unlocked]_vars
  /\ [][\A t \in Threads :
          /\ (pc[t] = "enq_wait" /\ pc'[t] # pc[t]) => pc'[t] = "enq_relock"
          /\ (pc[t] = "deq_wait" /\ pc'[t] # pc[t]) => pc'[t] = "deq_relock"
          /\ (pc[t] = "enq_relock" /\ pc'[t] # pc[t]) =>
                /\ lock = Unlocked /\ lock' = t /\ pc'[t] = "enq_recheck"
                /\ UNCHANGED <<size, front, rear, buffer, inserted>>
          /\ (pc[t] = "deq_relock" /\ pc'[t] # pc[t]) =>
                /\ lock = Unlocked /\ lock' = t /\ pc'[t] = "deq_recheck"
                /\ UNCHANGED <<size, front, rear, buffer, returned>>
          /\ (pc[t] = "enq_recheck" /\ pc'[t] # pc[t]
                /\ size = capacity /\ ~is_shutdown_flag) =>
                /\ pc'[t] = "enq_wait" /\ t \in not_full'
                /\ UNCHANGED <<size, front, rear, buffer, inserted>>
          /\ (pc[t] = "deq_recheck" /\ pc'[t] # pc[t]
                /\ size = 0 /\ ~is_shutdown_flag) =>
                /\ pc'[t] = "deq_wait" /\ t \in not_empty'
                /\ UNCHANGED <<size, front, rear, buffer, returned>>]_vars
  /\ [][(Live /\ inserted' # inserted) => size < capacity]_vars
  /\ [][(Live /\ returned' # returned) => size > 0]_vars

\* A producer whose wait has ended holds the mutex again and finds the queue
\* still full and not shut down, while a consumer that was woken finds the
\* mutex taken.
C18_Witness ==
  /\ Live /\ ~is_shutdown_flag /\ size = capacity
  /\ \E t \in Threads : pc[t] = "enq_recheck" /\ lock = t
  /\ \E u \in Threads : pc[u] = "deq_relock"

\* The mutex is free and no thread whose wait has ended still wants it.
Quiet ==
  /\ lock = Unlocked
  /\ \A t \in Threads : pc[t] \notin {"enq_relock", "deq_relock"}

\* C19: no lost wakeup.  In every state where the mutex is free and no woken
\* thread still wants it, a thread waiting on not_full sees a full queue that
\* is not shut down and a thread waiting on not_empty an empty queue that is
\* not shut down; so producers and consumers are never blocked together in
\* such a state.  And with no woken thread around, a dequeue that runs while a
\* producer waits takes an item at once and wakes a producer, and an enqueue
\* that runs while a consumer waits stores its item at once and wakes a
\* consumer.
C19_NoLostWakeup ==
  /\ []((Live /\ Quiet) =>
          /\ \A t \in Threads :
               /\ (t \in not_full \/ pc[t] = "enq_wait") =>
                     (size = capacity /\ ~is_shutdown_flag)
               /\ (t \in not_empty \/ pc[t] = "deq_wait") =>
                     (size = 0 /\ ~is_shutdown_flag)
          /\ ~(not_full # {} /\ not_empty # {}))
  /\ [][\A t \in Threads :
          /\ (InDequeueBody(t) /\ pc'[t] # pc[t] /\ not_full # {}
                /\ \A u \in Threads : pc[u] \notin {"enq_relock", "deq_relock"}) =>
                /\ pc'[t] = "idle" /\ returned' # returned
                /\ \E w \in not_full : pc'[w] = "enq_relock"
          /\ (InEnqueueBody(t) /\ pc'[t] # pc[t] /\ not_empty # {}
                /\ \A u \in Threads : pc[u] \notin {"enq_relock", "deq_relock"}) =>
                /\ pc'[t] = "idle" /\ inserted' # inserted
                /\ \E w \in not_empty : pc'[w] = "deq_relock"]_vars

\* A producer waits on a full queue of capacity 1 that has already been
\* through a dequeue and a second enqueue; the mutex is free and nobody else
\* wants it.
C19_Witness ==
  /\ Live /\ Quiet /\ ~is_shutdown_flag
  /\ capacity = 1 /\ size = capacity
  /\ Cardinality(not_full) = 1
  /\ Len(returned) = 1 /\ Len(inserted) = 2

\* C20: no access after teardown.  When queue_destroy has destroyed the mutex
\* and the conditions and freed the buffer and the struct, every thread that
\* was blocked in enqueue or dequeue when queue_destroy was called has taken
\* the mutex again, finished and returned: no thread is still inside an
\* operation on the freed queue.
C20_NoAccessAfterTeardown ==
  destroyed = "freed" =>
     /\ dBlocked = {}
     /\ \A t \in Threads : pc[t] = "idle"

====
